---- MODULE Spec2Model ----
(***************************************************************************)
(* Model of the task/user service of src/src/main.rs: the in-memory        *)
(* Database (two HashMaps), its snapshot file database.json, the single    *)
(* Mutex<Database> of AppState and the seven request handlers.             *)
(***************************************************************************)
EXTENDS Integers, Sequences, FiniteSets, TLC

\* ------------------------------------------------------------------ bounds
NumHandlers == 2    \* worker threads that run handlers concurrently
MaxRequests == 2    \* requests accepted over one run of the model
MaxRestarts == 1    \* times the process is stopped and started again

Handlers == 1..NumHandlers

\* the values requests and Databases are made of
Ids == {1, 2}
Names == {"buy milk", "walk dog"}
Usernames == {"alice", "bob"}
Passwords == {"p1", "p2"}

\* ------------------------------------------------------------------ data
\* struct Task
Task == [id : Ids, name : Names, completed : BOOLEAN]

\* struct User
User == [id : Ids, username : Usernames, password : Passwords]

\* HashMap::new
HashMap_new == [k \in {} |-> 0]

\* HashMap::insert(k, v): insert or overwrite the entry at k
HashMap_insert(m, k, v) == [x \in (DOMAIN m) \cup {k} |-> IF x = k THEN v ELSE m[x]]

\* HashMap::remove(k)
HashMap_remove(m, k) == [x \in (DOMAIN m) \ {k} |-> m[x]]

\* HashMap::get(k): an Option, the empty set for None and {v} for Some(v)
HashMap_get(m, k) == IF k \in DOMAIN m THEN {m[k]} ELSE {}

\* HashMap::values(): every value once per key, in no particular order (a bag:
\* value |-> number of keys that hold it)
HashMap_values(m) ==
    [v \in {m[k] : k \in DOMAIN m} |-> Cardinality({k \in DOMAIN m : m[k] = v})]

\* Database::new
Database_new == [tasks |-> HashMap_new, users |-> HashMap_new]

\* a mutant of Database_insert: the key is kept but every other task is dropped
Database_insert_clobber(d, task) ==
    [d EXCEPT !.tasks = HashMap_insert(HashMap_new, task.id, task)]

\* a mutant of Database_insert: the task is filed under the wrong key
Database_insert_wrongkey(d, task) ==
    [d EXCEPT !.tasks = HashMap_insert(d.tasks, CHOOSE k \in Ids : k # task.id, task)]

\* a mutant of Database_insert: the completed flag is not stored
Database_insert_uncompleted(d, task) ==
    [d EXCEPT !.tasks = HashMap_insert(d.tasks, task.id, [task EXCEPT !.completed = FALSE])]

\* Database::insert
Database_insert(d, task) == [d EXCEPT !.tasks = HashMap_insert(d.tasks, task.id, task)]

\* Database::get
Database_get(d, id) == HashMap_get(d.tasks, id)

\* a mutant of Database_get_all: only the open tasks are returned
Database_get_all_open(d) ==
    HashMap_values([k \in {x \in DOMAIN d.tasks : ~d.tasks[x].completed} |-> d.tasks[k]])

\* Database::get_all
Database_get_all(d) == HashMap_values(d.tasks)

\* a mutant of Database_delete: the whole map is cleared
Database_delete_clear(d, id) == [d EXCEPT !.tasks = HashMap_new]

\* a mutant of Database_delete: the entry is left where it is
Database_delete_keep(d, id) == d

\* Database::delete
Database_delete(d, id) == [d EXCEPT !.tasks = HashMap_remove(d.tasks, id)]

\* a mutant of Database_update: only a task that is already stored is replaced
Database_update_existing(d, task) ==
    IF task.id \in DOMAIN d.tasks
      THEN [d EXCEPT !.tasks = HashMap_insert(d.tasks, task.id, task)]
      ELSE d

\* Database::update
Database_update(d, task) == [d EXCEPT !.tasks = HashMap_insert(d.tasks, task.id, task)]

\* a mutant of Database_insert_user: the new user replaces the whole map
Database_insert_user_only(d, user) ==
    [d EXCEPT !.users = HashMap_insert(HashMap_new, user.id, user)]

\* Database::insert_user
Database_insert_user(d, user) == [d EXCEPT !.users = HashMap_insert(d.users, user.id, user)]

\* Database::get_user_by_name: values().find(..) yields the first match in the
\* map's iteration order, which is unspecified: the set of results it can give
\* (each an Option)
Database_get_user_by_name(d, username) ==
    LET hits == {k \in DOMAIN d.users : d.users[k].username = username}
    IN  IF hits = {} THEN {{}} ELSE {{d.users[k]} : k \in hits}

\* ------------------------------------------------------------------ JSON text
\* A u64 printed in decimal, as a sequence of digits (serde_json writes map keys
\* and numbers this way)
RECURSIVE u64_to_string(_)
u64_to_string(n) == IF n < 10 THEN <<n>> ELSE Append(u64_to_string(n \div 10), n % 10)

\* ... and read back
RECURSIVE u64_from_str(_)
u64_from_str(s) ==
    IF Len(s) = 0 THEN 0 ELSE 10 * u64_from_str(SubSeq(s, 1, Len(s) - 1)) + s[Len(s)]

\* #[derive(Serialize)] for Task and User: the fields in order, the id in decimal
Task_serialize(t) == [id |-> u64_to_string(t.id), name |-> t.name, completed |-> t.completed]
Task_deserialize(j) == [id |-> u64_from_str(j.id), name |-> j.name, completed |-> j.completed]
User_serialize(u) == [id |-> u64_to_string(u.id), username |-> u.username, password |-> u.password]
User_deserialize(j) == [id |-> u64_from_str(j.id), username |-> j.username, password |-> j.password]

\* The orders in which a map with key set S can be iterated
Orders(S) == {o \in [1..Cardinality(S) -> S] : \A i, j \in 1..Cardinality(S) : o[i] = o[j] => i = j}

\* The text is a sequence of tokens: one per task entry, one per user entry
\* (the key in decimal, then the value), then the closing brace. A text without
\* its closing brace is not a JSON document.
EndToken == [kind |-> "end"]
TaskToken(k, t) == [kind |-> "task", key |-> u64_to_string(k), val |-> Task_serialize(t)]
UserToken(k, u) == [kind |-> "user", key |-> u64_to_string(k), val |-> User_serialize(u)]

\* serde_json::to_string(&self) for the iteration orders to, uo of the two maps
to_string(d, to, uo) ==
    [i \in 1..Len(to) |-> TaskToken(to[i], d.tasks[to[i]])]
      \o [i \in 1..Len(uo) |-> UserToken(uo[i], d.users[uo[i]])]
      \o <<EndToken>>

\* every text serde_json::to_string(&self) can produce
Serializations(d) ==
    {to_string(d, to, uo) : to \in Orders(DOMAIN d.tasks), uo \in Orders(DOMAIN d.users)}

\* the entries of the text read into a Database, left to right (a repeated key
\* keeps its last value)
RECURSIVE read_entries(_, _)
read_entries(text, d) ==
    IF Len(text) = 0 THEN d
    ELSE LET tok == Head(text)
             nd == IF tok.kind = "task"
                     THEN [d EXCEPT !.tasks =
                             HashMap_insert(d.tasks, u64_from_str(tok.key), Task_deserialize(tok.val))]
                   ELSE IF tok.kind = "user"
                     THEN [d EXCEPT !.users =
                             HashMap_insert(d.users, u64_from_str(tok.key), User_deserialize(tok.val))]
                   ELSE d
         IN  read_entries(Tail(text), nd)

\* serde_json::from_str::<Database>: Err (ok = FALSE) unless the text is one
\* whole document: it ends with the closing brace and nothing follows a
\* closing brace
from_str(text) ==
    IF Len(text) = 0 \/ \E i \in 1..Len(text) : (text[i].kind = "end") # (i = Len(text))
      THEN [ok |-> FALSE, db |-> Database_new]
      ELSE [ok |-> TRUE, db |-> read_entries(text, Database_new)]

\* ------------------------------------------------------------------ file
\* database.json: absent, or present with some text
NoFile == [exists |-> FALSE, text |-> <<>>]

\* a mutant of File_create: the file is opened without being truncated
File_create_keep(f) == [exists |-> TRUE, text |-> f.text]

\* fs::File::create: the file is created, or truncated if it exists
File_create(f) == [exists |-> TRUE, text |-> <<>>]

\* a mutant of write_all: the closing brace is not written
write_all_short(f, data) == [f EXCEPT !.text = f.text \o SubSeq(data, 1, Len(data) - 1)]

\* file.write_all(data) returning Ok: the whole text follows what the file holds
write_all(f, data) == [f EXCEPT !.text = f.text \o data]

\* file.write_all(data) returning Err: only the first n tokens were written
write_part(f, data, n) == [f EXCEPT !.text = f.text \o SubSeq(data, 1, n)]

\* Database::load_from_file on the file f; readable = FALSE is an I/O error of
\* fs::read_to_string
load_from_file(f, readable) ==
    IF ~f.exists \/ ~readable
      THEN [ok |-> FALSE, db |-> Database_new]
      ELSE from_str(f.text)

\* a mutant of main_db: the loaded Database is dropped
main_db_fresh(r) == Database_new

\* main, lines 142-145: the Database the process starts with, given load's result
main_db(r) == IF r.ok THEN r.db ELSE Database_new

\* ------------------------------------------------------------------ HTTP
\* The bodies the clients of the service send: tasks are created open and
\* updated to completed under another name; users register with password p1,
\* with either name under either id (so two ids can share a name); logins
\* come with an id and a password that no registered user of that name need have
CreateBodies == {t \in Task : t.name = "buy milk" /\ ~t.completed}
UpdateBodies == {t \in Task : t.name = "walk dog" /\ t.completed}
RegisterBodies == {u \in User : u.password = "p1"}
LoginBodies == {u \in User : u.id = 1 /\ u.password = "p2"}

\* Request bodies and paths the routes accept
Requests ==
    [op : {"create_task"}, arg : CreateBodies]
      \cup [op : {"update_task"}, arg : UpdateBodies]
      \cup [op : {"get_task", "delete_task"}, arg : Ids]
      \cup [op : {"get_all_tasks"}, arg : {0}]
      \cup [op : {"register"}, arg : RegisterBodies]
      \cup [op : {"login"}, arg : LoginBodies]
NoReq == [op |-> "none", arg |-> 0]
Mutating == {"create_task", "update_task", "delete_task", "register"}
Reading == {"get_task", "get_all_tasks", "login"}

\* a JSON array (or a single object) of tasks: the serialized tasks, as a bag
Json(bag) == [j \in {Task_serialize(t) : t \in DOMAIN bag} |->
                bag[CHOOSE t \in DOMAIN bag : Task_serialize(t) = j]]
NoJson == Json(HashMap_new)

\* HttpResponse values
NoResp == [status |-> 0, kind |-> "none", text |-> "", json |-> NoJson]
OkEmpty == [status |-> 200, kind |-> "empty", text |-> "", json |-> NoJson]
NotFound == [status |-> 404, kind |-> "empty", text |-> "", json |-> NoJson]
OkTask(t) == [status |-> 200, kind |-> "object", text |-> "", json |-> Json([x \in {t} |-> 1])]
OkTasks(bag) == [status |-> 200, kind |-> "array", text |-> "", json |-> Json(bag)]
OkText(s) == [status |-> 200, kind |-> "text", text |-> s, json |-> NoJson]
BadRequest(s) == [status |-> 400, kind |-> "text", text |-> s, json |-> NoJson]

\* get_task, lines 98-101
get_task_response(found) ==
    IF found = {} THEN NotFound ELSE OkTask(CHOOSE t \in found : TRUE)

\* a mutant of login_response: the password is compared as well
login_response_password(user, found) ==
    IF found # {} /\ user.username = (CHOOSE u \in found : TRUE).username
                  /\ user.password = (CHOOSE u \in found : TRUE).password
      THEN OkText("User Logged in!")
      ELSE BadRequest("Invalid Username or Password")

\* login, lines 132-137
login_response(user, found) ==
    IF found # {} /\ user.username = (CHOOSE u \in found : TRUE).username
      THEN OkText("User Logged in!")
      ELSE BadRequest("Invalid Username or Password")

\* ------------------------------------------------------------------ state
VARIABLES
    phase,      \* "boot" before main has built the Database, then "serving"
    db,         \* the Database inside AppState.db
    file,       \* database.json
    lock,       \* the holder of the Mutex of AppState.db, 0 when it is free
    pc,         \* where each handler is
    req,        \* the request each handler serves
    resp,       \* the response each handler has built and is about to return
    nreq,       \* requests accepted so far
    restarts,   \* times the process was stopped so far
    loaded,     \* whether load_from_file returned Ok at the last start
    fresh,      \* no request has come in since the last start
    saved,      \* what save_to_file returned to each handler: none, ok, err
    lastSave,   \* result of the last save_to_file of this process: none, ok, err
    prevSave,   \* result of the save_to_file before that one
    durable,    \* the Database the last save_to_file that returned Ok was given
    seqDb,      \* the Database of the one-at-a-time run, in lock order
    seqResp,    \* the responses the one-at-a-time run can give to req
    before,     \* the Database as it was before the call of the handler in the lock
    issued,     \* the tasks of the create_task requests of the N-inserts scenario
    ret         \* what the last Database call of the Store harness returned

vars == <<phase, db, file, lock, pc, req, resp, nreq, restarts, loaded, fresh, saved,
          lastSave, prevSave, durable, seqDb, seqResp, before, issued, ret>>

ghost == <<seqDb, seqResp, ret, fresh, issued>>

\* the one-at-a-time run: what a request does to the Database ...
Apply(r, d) ==
    CASE r.op = "create_task" -> Database_insert(d, r.arg)
      [] r.op = "update_task" -> Database_update(d, r.arg)
      [] r.op = "delete_task" -> Database_delete(d, r.arg)
      [] r.op = "register" -> Database_insert_user(d, r.arg)
      [] OTHER -> d

\* ... and the responses it can get
Responses(r, d) ==
    CASE r.op = "get_task" -> {get_task_response(Database_get(d, r.arg))}
      [] r.op = "get_all_tasks" -> {OkTasks(Database_get_all(d))}
      [] r.op = "login" ->
           {login_response(r.arg, f) : f \in Database_get_user_by_name(d, r.arg.username)}
      [] OTHER -> {OkEmpty}

Init ==
    /\ phase = "boot"
    /\ db = Database_new
    /\ file = NoFile
    /\ lock = 0
    /\ pc = [h \in Handlers |-> "idle"]
    /\ req = [h \in Handlers |-> NoReq]
    /\ resp = [h \in Handlers |-> NoResp]
    /\ nreq = 0
    /\ restarts = 0
    /\ loaded = FALSE
    /\ fresh = FALSE
    /\ lastSave = "none"
    /\ prevSave = "none"
    /\ issued = {}
    /\ durable = {}
    /\ seqDb = Database_new
    /\ seqResp = [h \in Handlers |-> {}]
    /\ saved = [h \in Handlers |-> "none"]
    /\ before = Database_new
    /\ ret = {}

\* main, lines 142-147: load the snapshot or fall back to an empty Database
Boot ==
    /\ phase = "boot"
    /\ \E readable \in BOOLEAN :
         LET r == load_from_file(file, readable)
         IN  /\ db' = main_db(r)
             /\ loaded' = r.ok
             /\ fresh' = TRUE
             /\ seqDb' = main_db(r)
    /\ phase' = "serving"
    /\ UNCHANGED <<file, lock, pc, req, resp, nreq, restarts, saved, lastSave, prevSave,
                   durable, seqResp, before, issued, ret>>

\* a request reaches a free worker (the first one: the workers are alike),
\* which enters the handler
Receive(h) ==
    /\ phase = "serving"
    /\ pc[h] = "idle"
    /\ \A g \in Handlers : g < h => pc[g] # "idle"
    /\ nreq < MaxRequests
    /\ \E r \in Requests : req' = [req EXCEPT ![h] = r]
    /\ pc' = [pc EXCEPT ![h] = "lock"]
    /\ nreq' = nreq + 1
    /\ fresh' = FALSE
    /\ UNCHANGED <<phase, db, file, lock, resp, restarts, loaded, saved, lastSave, prevSave,
                   durable, seqDb, seqResp, before, issued, ret>>

\* a mutant of MutexFree: the lock is handed out even when it is held
MutexFree_always(l) == TRUE

\* Mutex::lock blocks until the mutex is free
MutexFree(l) == l = 0

\* app_state.db.lock().unwrap(), the first line of every handler
Lock(h) ==
    /\ pc[h] = "lock"
    /\ MutexFree(lock)
    /\ lock' = h
    /\ pc' = [pc EXCEPT ![h] = "op"]
    /\ seqDb' = Apply(req[h], seqDb)
    /\ seqResp' = [seqResp EXCEPT ![h] = Responses(req[h], seqDb)]
    /\ UNCHANGED <<phase, db, file, req, resp, nreq, restarts, loaded, fresh, saved,
                   lastSave, prevSave, durable, before, issued, ret>>

\* the Database call of a mutating handler, then on to `let _ = save_to_file()`
Mutate(h, d) ==
    /\ db' = d
    /\ before' = db
    /\ pc' = [pc EXCEPT ![h] = "save"]
    /\ UNCHANGED <<phase, file, lock, req, resp, nreq, restarts, loaded, saved, lastSave,
                   prevSave, durable, ghost>>

\* a mutant of delete_task: the handler answers without saving
delete_task_nosave(h) ==
    /\ pc[h] = "op" /\ req[h].op = "delete_task"
    /\ db' = Database_delete(db, req[h].arg)
    /\ before' = db
    /\ pc' = [pc EXCEPT ![h] = "respond"]
    /\ resp' = [resp EXCEPT ![h] = OkEmpty]
    /\ UNCHANGED <<phase, file, lock, req, nreq, restarts, loaded, saved, lastSave,
                   prevSave, durable, ghost>>

\* create_task, line 90
create_task(h) ==
    /\ pc[h] = "op" /\ req[h].op = "create_task"
    /\ Mutate(h, Database_insert(db, req[h].arg))

\* delete_task, line 111
delete_task(h) ==
    /\ pc[h] = "op" /\ req[h].op = "delete_task"
    /\ Mutate(h, Database_delete(db, req[h].arg))

\* update_task, line 118
update_task(h) ==
    /\ pc[h] = "op" /\ req[h].op = "update_task"
    /\ Mutate(h, Database_update(db, req[h].arg))

\* register, line 125
register(h) ==
    /\ pc[h] = "op" /\ req[h].op = "register"
    /\ Mutate(h, Database_insert_user(db, req[h].arg))

\* a reading handler builds its response from the Database
Answer(h, r) ==
    /\ resp' = [resp EXCEPT ![h] = r]
    /\ pc' = [pc EXCEPT ![h] = "respond"]
    /\ UNCHANGED <<phase, db, file, lock, req, nreq, restarts, loaded, saved, lastSave,
                   prevSave, durable, before, ghost>>

\* a mutant of get_task: the task is taken out of the map (remove for get)
get_task_take(h) ==
    /\ pc[h] = "op" /\ req[h].op = "get_task"
    /\ db' = Database_delete(db, req[h].arg)
    /\ resp' = [resp EXCEPT ![h] = get_task_response(Database_get(db, req[h].arg))]
    /\ pc' = [pc EXCEPT ![h] = "respond"]
    /\ UNCHANGED <<phase, file, lock, req, nreq, restarts, loaded, saved, lastSave,
                   prevSave, durable, before, ghost>>

\* get_task, lines 98-101
get_task(h) ==
    /\ pc[h] = "op" /\ req[h].op = "get_task"
    /\ Answer(h, get_task_response(Database_get(db, req[h].arg)))

\* get_all_tasks, line 106
get_all_tasks(h) ==
    /\ pc[h] = "op" /\ req[h].op = "get_all_tasks"
    /\ Answer(h, OkTasks(Database_get_all(db)))

\* login, lines 132-137
login(h) ==
    /\ pc[h] = "op" /\ req[h].op = "login"
    /\ \E found \in Database_get_user_by_name(db, req[h].arg.username) :
         Answer(h, login_response(req[h].arg, found))

\* a mutant of SaveErr: the handler returns the error of the failed save as a
\* 500 (`?` in the place of `let _ =`)
SaveErr_report(h) ==
    /\ saved' = [saved EXCEPT ![h] = "err"]
    /\ lastSave' = "err"
    /\ prevSave' = lastSave
    /\ resp' = [resp EXCEPT ![h] = [status |-> 500, kind |-> "empty", text |-> "", json |-> NoJson]]
    /\ pc' = [pc EXCEPT ![h] = "respond"]
    /\ UNCHANGED <<phase, db, lock, req, nreq, restarts, loaded, durable, before, ghost>>

\* a mutant of SaveErr: the failed save undoes the change in memory
SaveErr_rollback(h) ==
    /\ saved' = [saved EXCEPT ![h] = "err"]
    /\ lastSave' = "err"
    /\ prevSave' = lastSave
    /\ db' = before
    /\ resp' = [resp EXCEPT ![h] = OkEmpty]
    /\ pc' = [pc EXCEPT ![h] = "respond"]
    /\ UNCHANGED <<phase, lock, req, nreq, restarts, loaded, durable, before, ghost>>

\* what the handler does with an Err of save_to_file: `let _ =` drops it and the
\* handler goes on to build its response, HttpResponse::Ok()
SaveErr(h) ==
    /\ saved' = [saved EXCEPT ![h] = "err"]
    /\ lastSave' = "err"
    /\ prevSave' = lastSave
    /\ resp' = [resp EXCEPT ![h] = OkEmpty]
    /\ pc' = [pc EXCEPT ![h] = "respond"]
    /\ UNCHANGED <<phase, db, lock, req, nreq, restarts, loaded, durable, before, ghost>>

\* save_to_file, lines 71-72: File::create truncates database.json; or it (or
\* to_string before it) fails and the file is left alone
save_create(h) ==
    /\ pc[h] = "save"
    /\ \/ /\ file' = File_create(file)
          /\ pc' = [pc EXCEPT ![h] = "write"]
          /\ UNCHANGED <<phase, db, lock, req, resp, nreq, restarts, loaded, saved, lastSave,
                         prevSave, durable, before, ghost>>
       \/ /\ file' = file
          /\ SaveErr(h)

\* save_to_file, lines 73-74: write_all writes the whole text and the handler
\* goes on to build its response, HttpResponse::Ok(); or write_all fails having
\* written only a part of the text
save_write(h) ==
    /\ pc[h] = "write"
    /\ \E data \in Serializations(db) :
         \/ /\ file' = write_all(file, data)
            /\ saved' = [saved EXCEPT ![h] = "ok"]
            /\ lastSave' = "ok"
            /\ prevSave' = lastSave
            /\ durable' = {db}
            /\ resp' = [resp EXCEPT ![h] = OkEmpty]
            /\ pc' = [pc EXCEPT ![h] = "respond"]
            /\ UNCHANGED <<phase, db, lock, req, nreq, restarts, loaded, before, ghost>>
         \/ /\ \E n \in 0..(Len(data) - 1) : file' = write_part(file, data, n)
            /\ SaveErr(h)

\* a mutant of respond: the MutexGuard is not dropped (mem::forget(database))
respond_hold(h) ==
    /\ pc[h] = "respond"
    /\ pc' = [pc EXCEPT ![h] = "idle"]
    /\ req' = [req EXCEPT ![h] = NoReq]
    /\ resp' = [resp EXCEPT ![h] = NoResp]
    /\ saved' = [saved EXCEPT ![h] = "none"]
    /\ seqResp' = [seqResp EXCEPT ![h] = {}]
    /\ before' = Database_new
    /\ UNCHANGED <<phase, db, file, lock, nreq, restarts, loaded, fresh, lastSave, prevSave,
                   durable, seqDb, issued, ret>>

\* the end of a handler: the response is returned, the MutexGuard dropped and
\* the worker free for the next request
respond(h) ==
    /\ pc[h] = "respond"
    /\ lock' = IF lock = h THEN 0 ELSE lock
    /\ pc' = [pc EXCEPT ![h] = "idle"]
    /\ req' = [req EXCEPT ![h] = NoReq]
    /\ resp' = [resp EXCEPT ![h] = NoResp]
    /\ saved' = [saved EXCEPT ![h] = "none"]
    /\ seqResp' = [seqResp EXCEPT ![h] = {}]
    /\ before' = Database_new
    /\ UNCHANGED <<phase, db, file, nreq, restarts, loaded, fresh, lastSave, prevSave,
                   durable, seqDb, issued, ret>>

\* the process stops (killed, or the machine goes down) and is started again
\* later: memory is lost, database.json stays as it is
Crash ==
    /\ phase = "serving"
    /\ restarts < MaxRestarts
    /\ restarts' = restarts + 1
    /\ phase' = "boot"
    /\ db' = Database_new
    /\ lock' = 0
    /\ pc' = [h \in Handlers |-> "idle"]
    /\ req' = [h \in Handlers |-> NoReq]
    /\ resp' = [h \in Handlers |-> NoResp]
    /\ loaded' = FALSE
    /\ lastSave' = "none"
    /\ prevSave' = "none"
    /\ seqDb' = Database_new
    /\ seqResp' = [h \in Handlers |-> {}]
    /\ saved' = [h \in Handlers |-> "none"]
    /\ before' = Database_new
    /\ fresh' = FALSE
    /\ UNCHANGED <<file, nreq, durable, issued, ret>>

Step(h) ==
    \/ Receive(h)
    \/ Lock(h)
    \/ create_task(h)
    \/ get_task(h)
    \/ get_all_tasks(h)
    \/ delete_task(h)
    \/ update_task(h)
    \/ register(h)
    \/ login(h)
    \/ save_create(h)
    \/ save_write(h)
    \/ respond(h)

Next == Boot \/ Crash \/ \E h \in Handlers : Step(h)

Spec == Init /\ [][Next]_vars

\* ------------------------------------------------------------------ scheduling
\* the steps of a handler once its request is in: no handler awaits anything,
\* so the worker thread that runs it goes on with it
Run(h) ==
    \/ create_task(h)
    \/ get_task(h)
    \/ get_all_tasks(h)
    \/ delete_task(h)
    \/ update_task(h)
    \/ register(h)
    \/ login(h)
    \/ save_create(h)
    \/ save_write(h)
    \/ respond(h)

\* one request for each route: which handler runs and what it waits for does
\* not depend on the ids, names and passwords in the request
RouteRequests ==
    {[op |-> "create_task", arg |-> [id |-> 1, name |-> "buy milk", completed |-> FALSE]],
     [op |-> "update_task", arg |-> [id |-> 1, name |-> "walk dog", completed |-> TRUE]],
     [op |-> "get_task", arg |-> 1],
     [op |-> "delete_task", arg |-> 1],
     [op |-> "get_all_tasks", arg |-> 0],
     [op |-> "register", arg |-> [id |-> 1, username |-> "alice", password |-> "p1"]],
     [op |-> "login", arg |-> [id |-> 1, username |-> "alice", password |-> "p2"]]}

\* a request of that sample reaches a free worker
ReceiveRoute(h) ==
    /\ phase = "serving"
    /\ pc[h] = "idle"
    /\ \A g \in Handlers : g < h => pc[g] # "idle"
    /\ nreq < MaxRequests
    /\ \E r \in RouteRequests : req' = [req EXCEPT ![h] = r]
    /\ pc' = [pc EXCEPT ![h] = "lock"]
    /\ nreq' = nreq + 1
    /\ fresh' = FALSE
    /\ UNCHANGED <<phase, db, file, lock, resp, restarts, loaded, saved, lastSave, prevSave,
                   durable, seqDb, seqResp, before, issued, ret>>

\* the process as long as it is not stopped: the worker threads are scheduled
\* fairly and a thread that waits in lock() gets the Mutex at some release
NextLive == Boot \/ \E h \in Handlers : ReceiveRoute(h) \/ Lock(h) \/ Run(h)

SpecLive ==
    /\ Init /\ [][NextLive]_vars
    /\ WF_vars(Boot)
    /\ \A h \in Handlers : SF_vars(Lock(h)) /\ WF_vars(Run(h))

\* ------------------------------------------------------------------ N concurrent inserts
\* the tasks of the scenario: as many ids as there are workers
InsertTask == [id : Handlers, name : Names, completed : BOOLEAN]

\* a create_task request for a task whose id no other request of the scenario
\* carries reaches a free worker
ReceiveInsert(h) ==
    /\ phase = "serving"
    /\ pc[h] = "idle"
    /\ \E t \in InsertTask :
         /\ \A u \in issued : u.id # t.id
         /\ req' = [req EXCEPT ![h] = [op |-> "create_task", arg |-> t]]
         /\ issued' = issued \cup {t}
    /\ pc' = [pc EXCEPT ![h] = "lock"]
    /\ fresh' = FALSE
    /\ UNCHANGED <<phase, db, file, lock, resp, nreq, restarts, loaded, saved,
                   lastSave, prevSave, durable, seqDb, seqResp, before, ret>>

NextInserts ==
    \/ Boot
    \/ \E h \in Handlers :
         \/ ReceiveInsert(h)
         \/ Lock(h)
         \/ create_task(h)
         \/ save_create(h)
         \/ save_write(h)
         \/ respond(h)

SpecInserts == Init /\ [][NextInserts]_vars

\* ------------------------------------------------------------------ Store harness
\* Database values of any shape: the two maps with any keys and any values
TaskMaps == UNION {[S -> Task] : S \in SUBSET Ids}
UserMaps == UNION {[S -> User] : S \in SUBSET Ids}
Stores == [tasks : TaskMaps, users : UserMaps]

\* database.json before the calls: absent, or left by an earlier run
StaleFile ==
    [exists |-> TRUE,
     text |-> to_string([tasks |-> HashMap_insert(HashMap_new, 1, CHOOSE t \in Task : t.id = 1),
                         users |-> HashMap_insert(HashMap_new, 2, CHOOSE u \in User : u.id = 2)],
                        <<1>>, <<2>>)]

\* a Database of any shape, on which one thread calls the methods directly
InitStore ==
    /\ phase = "store"
    /\ db \in Stores
    /\ file \in {NoFile, StaleFile}
    /\ lock = 0
    /\ pc = [h \in Handlers |-> "idle"]
    /\ req = [h \in Handlers |-> NoReq]
    /\ resp = [h \in Handlers |-> NoResp]
    /\ nreq = 0
    /\ restarts = 0
    /\ loaded = FALSE
    /\ fresh = FALSE
    /\ lastSave = "none"
    /\ prevSave = "none"
    /\ issued = {}
    /\ durable = {}
    /\ seqDb = Database_new
    /\ seqResp = [h \in Handlers |-> {}]
    /\ saved = [h \in Handlers |-> "none"]
    /\ before = Database_new
    /\ ret = {}

\* the first call of a pair: the Database and the file become d and f
Call(name, arg, d, f) ==
    /\ phase = "store"
    /\ pc[1] = "idle"
    /\ req' = [req EXCEPT ![1] = [op |-> name, arg |-> arg]]
    /\ pc' = [pc EXCEPT ![1] = "called"]
    /\ before' = db
    /\ db' = d
    /\ file' = f
    /\ UNCHANGED <<phase, lock, resp, nreq, restarts, loaded, fresh, saved, lastSave,
                   prevSave, durable, seqDb, seqResp, issued, ret>>

\* the second call of a pair, which returns r
Result(name, r) ==
    /\ phase = "store"
    /\ pc[1] = "called"
    /\ req[1].op = name
    /\ pc' = [pc EXCEPT ![1] = "done"]
    /\ ret' = r
    /\ UNCHANGED <<phase, db, file, lock, req, resp, nreq, restarts, loaded, fresh, saved,
                   lastSave, prevSave, durable, seqDb, seqResp, before, issued>>

\* db.insert(t) ...
call_insert == \E t \in Task : Call("insert", t, Database_insert(db, t), file)

\* ... then db.get(&t.id)
call_get_inserted == Result("insert", Database_get(db, req[1].arg.id))

\* db.save_to_file() returning Ok(()) ...
call_save ==
    \E data \in Serializations(db) :
        Call("save_to_file", 0, db, write_all(File_create(file), data))

\* ... then Database::load_from_file(): {d} for Ok(d), {} for Err
call_load ==
    LET r == load_from_file(file, TRUE)
    IN  Result("save_to_file", IF r.ok THEN {r.db} ELSE {})

\* db.delete(&id) ...
call_delete == \E id \in Ids : Call("delete", id, Database_delete(db, id), file)

\* ... then GET /task/{id}: db.get(&id) and the response get_task makes of it
call_get_deleted == Result("delete", get_task_response(Database_get(db, req[1].arg)))

\* POST /login with any body reaches the handler ...
call_login == \E user \in User : Call("login", user, db, file)

\* ... then db.get_user_by_name(&user.username) and the match of login on
\* what it returned
call_login_response ==
    /\ req[1].op = "login"
    /\ \E found \in Database_get_user_by_name(db, req[1].arg.username) :
          Result("login", login_response(req[1].arg, found))

NextStore ==
    \/ call_insert \/ call_get_inserted
    \/ call_save \/ call_load
    \/ call_delete \/ call_get_deleted
    \/ call_login \/ call_login_response

SpecStore == InitStore /\ [][NextStore]_vars

\* ------------------------------------------------------------------ claims
\* the handlers that hold the MutexGuard: between lock() and the end of the handler
InCritical(h) == pc[h] \in {"op", "save", "write", "respond"}

\* the handler has built its response and is about to return it
Answered(h) == pc[h] = "respond"

\* every request that came in has been answered
Quiet == \A h \in Handlers : pc[h] = "idle"

\* C1: once every one of the concurrent create_task requests (of tasks with
\* pairwise distinct ids) has been answered, each of their tasks is among the
\* tasks get_all returns, however the handlers interleaved.
C1_NoLostInsert == Quiet => \A t \in issued : t \in DOMAIN Database_get_all(db)

\* as many create_task requests as there are workers were served, and the
\* Database holds as many tasks
C1_Witness ==
    /\ Quiet
    /\ Cardinality(issued) = NumHandlers
    /\ Cardinality(DOMAIN db.tasks) = NumHandlers

\* C2: at most one handler is between lock() and the drop of its guard, and
\* a handler that is there (reading or writing the Database) holds the Mutex.
C2_MutualExclusion ==
    /\ Cardinality({h \in Handlers : InCritical(h)}) <= 1
    /\ \A h \in Handlers : InCritical(h) => lock = h
    /\ (\A h \in Handlers : ~InCritical(h)) => lock = 0

\* one handler is about to write the Database while another waits in lock()
C2_Witness ==
    \E h, g \in Handlers : /\ pc[h] = "op" /\ req[h].op \in Mutating /\ lock = h
                           /\ pc[g] = "lock"

\* C3: the responses given, and the Database once no handler holds the lock,
\* are those of the run that serves the same requests one at a time in the
\* order in which they took the lock.
C3_Serialized ==
    /\ (phase = "serving" /\ lock = 0) => db = seqDb
    /\ \A h \in Handlers : Answered(h) => (db = seqDb /\ resp[h] \in seqResp[h])

\* an update_task has been served and is about to answer while a get_task
\* for the same id, which came in meanwhile, waits for the lock
C3_Witness ==
    \E h, g \in Handlers :
       /\ Answered(h) /\ req[h].op = "update_task"
       /\ pc[g] = "lock" /\ req[g].op = "get_task" /\ req[g].arg = req[h].arg.id

\* C4: every key of tasks is the id of its task, and every key of users the
\* id of its user, in every state: empty, loaded from database.json, or after
\* any requests.
C4_KeyIsId ==
    /\ \A k \in DOMAIN db.tasks : db.tasks[k].id = k
    /\ \A k \in DOMAIN db.users : db.users[k].id = k

\* the process was restarted and loaded a Database with a task and a user
C4_Witness ==
    /\ phase = "serving" /\ restarts > 0 /\ loaded
    /\ db.tasks # HashMap_new /\ db.users # HashMap_new

\* the Database the last save_to_file that returned Ok wrote, the empty one if
\* none ever did
DurableDb == IF durable = {} THEN Database_new ELSE CHOOSE d \in durable : TRUE

\* what a start of the process would make of database.json as it is now
Restored == main_db(load_from_file(file, TRUE))

\* C5: at every point a restart gives the Database of the most recent save
\* that succeeded (the empty one if none did), also after later saves failed
\* or the process stopped during a save.
C5_RestartRestoresLastSave == Restored = DurableDb

\* C6: save_to_file returning Ok followed by load_from_file returns Ok with
\* a Database of the same keys and the same values, for a Database of any shape.
C6_SaveLoadRoundTrip ==
    (phase = "store" /\ pc[1] = "done" /\ req[1].op = "save_to_file") => ret = {db}

\* a Database with two tasks and a user under a key that is not its id went
\* through the file, which held another Database before
C6_Witness ==
    /\ phase = "store" /\ pc[1] = "done" /\ req[1].op = "save_to_file"
    /\ db.tasks # from_str(StaleFile.text).db.tasks
    /\ ret = {db}
    /\ Cardinality(DOMAIN db.tasks) = 2
    /\ \E k \in DOMAIN db.users : db.users[k].id # k

\* C7: a mutating handler tries a save before it answers, and when no handler
\* holds the lock and the last save of the process returned Ok, database.json
\* reads back as the Database in memory.
C7_SnapshotAfterMutation ==
    /\ \A h \in Handlers : (Answered(h) /\ req[h].op \in Mutating) => saved[h] # "none"
    /\ (phase = "serving" /\ lock = 0 /\ lastSave = "ok") =>
         LET r == load_from_file(file, TRUE) IN r.ok /\ r.db = db

\* two mutating requests were served, both saves returned Ok, and the file
\* holds both changes
C7_Witness ==
    /\ phase = "serving" /\ lock = 0 /\ lastSave = "ok" /\ prevSave = "ok"
    /\ db.tasks # HashMap_new /\ db.users # HashMap_new
    /\ from_str(file.text).db = db

\* C8: when the save of a mutating request fails the change stays in memory,
\* the handler answers 200 and the service goes on; once a later save returns
\* Ok the file reads back as the whole Database in memory.
C8_SaveFailureStands ==
    /\ \A h \in Handlers :
         (Answered(h) /\ saved[h] = "err") =>
            /\ phase = "serving"
            /\ db = Apply(req[h], before)
            /\ db = seqDb
            /\ resp[h] = OkEmpty
    /\ (phase = "serving" /\ lock = 0 /\ lastSave = "ok" /\ prevSave = "err") =>
         from_str(file.text) = [ok |-> TRUE, db |-> db]

\* the save of a create_task failed, the task is in memory and not in the
\* file, and another request waits to be served
C8_Witness ==
    \E h, g \in Handlers :
       /\ Answered(h) /\ saved[h] = "err" /\ req[h].op = "create_task"
       /\ req[h].arg.id \in DOMAIN db.tasks
       /\ req[h].arg.id \notin DOMAIN Restored.tasks
       /\ pc[g] = "lock"

\* a save failed and the next one returned Ok: the file holds the Database
C8_WitnessHealed ==
    /\ phase = "serving" /\ lock = 0 /\ lastSave = "ok" /\ prevSave = "err"
    /\ db.tasks # HashMap_new
    /\ from_str(file.text).db = db

\* the process has started and no request has come in yet
JustStarted == phase = "serving" /\ fresh

\* C9: when load_from_file fails (no file, a file that cannot be read, a text
\* that is no document) the process serves an empty Database, and when it
\* succeeds exactly the Database the file holds.
C9_LoadFailureRecovered ==
    JustStarted =>
      /\ loaded => (file.exists /\ from_str(file.text).ok /\ db = from_str(file.text).db)
      /\ ~loaded => db = Database_new
      /\ (~file.exists \/ ~from_str(file.text).ok) => ~loaded

\* the process started on a file that holds part of a document
C9_Witness ==
    /\ JustStarted /\ ~loaded /\ db = Database_new
    /\ file.exists /\ Len(file.text) > 0 /\ ~from_str(file.text).ok

\* the process started on a whole document and serves what it holds
C9_WitnessLoaded ==
    /\ JustStarted /\ loaded /\ db.tasks # HashMap_new

\* C10: get(t.id) right after insert(t) returns Some(t), t in all its fields,
\* for a Database of any shape, with or without an entry at t.id before.
C10_InsertGetRoundTrip ==
    (phase = "store" /\ pc[1] = "done" /\ req[1].op = "insert") => ret = {req[1].arg}

\* the inserted task replaced another one at its id
C10_Witness ==
    /\ phase = "store" /\ pc[1] = "done" /\ req[1].op = "insert"
    /\ ret = {req[1].arg}
    /\ req[1].arg.id \in DOMAIN before.tasks
    /\ before.tasks[req[1].arg.id] # req[1].arg

\* C11: get_task(id) right after delete(id) finds nothing and answers 404, for
\* a Database of any shape and any id, stored before or not.
C11_DeleteThenGet ==
    (phase = "store" /\ pc[1] = "done" /\ req[1].op = "delete") =>
       /\ req[1].arg \notin DOMAIN db.tasks
       /\ ret = NotFound
       /\ ret.status = 404

\* the deleted id held a task before, next to a task under the other id
C11_Witness ==
    /\ phase = "store" /\ pc[1] = "done" /\ req[1].op = "delete"
    /\ req[1].arg \in DOMAIN before.tasks
    /\ Cardinality(DOMAIN before.tasks) = 2
    /\ ret = NotFound

\* the deleted id was never stored
C11_WitnessAbsent ==
    /\ phase = "store" /\ pc[1] = "done" /\ req[1].op = "delete"
    /\ req[1].arg \notin DOMAIN before.tasks
    /\ ret = NotFound

\* the handler has made its Database call and has not returned yet
Called(h) == pc[h] \in {"save", "write", "respond"}

\* C12: update_task(t) leaves the Database that insert(t) would have made of
\* the one it found, with t stored at t.id whether or not the id was stored
\* before, and it answers as create_task does: 200 with an empty body.
C12_UpsertEquivalence ==
    \A h \in Handlers :
       /\ (Called(h) /\ req[h].op = "update_task") =>
             /\ db = Database_insert(before, req[h].arg)
             /\ HashMap_get(db.tasks, req[h].arg.id) = {req[h].arg}
       /\ (Answered(h) /\ req[h].op \in {"create_task", "update_task"}) => resp[h] = OkEmpty

\* an update_task for an id that was not stored has created the entry, next
\* to the task a create_task stored before
C12_Witness ==
    \E h \in Handlers :
       /\ Answered(h) /\ req[h].op = "update_task"
       /\ req[h].arg.id \notin DOMAIN before.tasks
       /\ before.tasks # HashMap_new
       /\ db.tasks[req[h].arg.id] = req[h].arg

\* an update_task has replaced the task a create_task stored
C12_WitnessReplaced ==
    \E h \in Handlers :
       /\ Answered(h) /\ req[h].op = "update_task"
       /\ req[h].arg.id \in DOMAIN before.tasks
       /\ before.tasks[req[h].arg.id] # req[h].arg
       /\ db.tasks[req[h].arg.id] = req[h].arg

\* the users stored under the username, whatever their ids and passwords
UsersNamed(d, username) == {k \in DOMAIN d.users : d.users[k].username = username}

\* C13: login answers 200 "User Logged in!" exactly when some stored user has
\* the username of the request, whatever the password and the id of the
\* request, and 400 "Invalid Username or Password" otherwise, so a username
\* that was never registered is always rejected.
C13_LoginOutcome ==
    (phase = "store" /\ pc[1] = "done" /\ req[1].op = "login") =>
       /\ ret \in {OkText("User Logged in!"), BadRequest("Invalid Username or Password")}
       /\ ret.status = 200 <=> UsersNamed(db, req[1].arg.username) # {}
       /\ ret.status = 400 <=> UsersNamed(db, req[1].arg.username) = {}
       /\ db = before

\* a login was accepted although no stored user of that name has the
\* password or the id of the request
C13_Witness ==
    /\ phase = "store" /\ pc[1] = "done" /\ req[1].op = "login"
    /\ ret.status = 200
    /\ \A k \in UsersNamed(db, req[1].arg.username) :
          db.users[k].password # req[1].arg.password /\ db.users[k].id # req[1].arg.id

\* a login was rejected: users are stored, none under the name of the request
C13_WitnessRejected ==
    /\ phase = "store" /\ pc[1] = "done" /\ req[1].op = "login"
    /\ ret.status = 400
    /\ db.users # HashMap_new

C14_WitnessCreated ==
    \E h \in Handlers :
       /\ Answered(h) /\ req[h].op = "get_all_tasks" /\ restarts = 0
       /\ \E t \in CreateBodies : DOMAIN resp[h].json = {Task_serialize(t)}

\* the text s is the beginning of the text t
IsPrefix(s, t) == Len(s) <= Len(t) /\ SubSeq(t, 1, Len(s)) = s

\* the handlers inside save_to_file
Saving == {h \in Handlers : pc[h] \in {"save", "write"}}

\* C15: once the process serves, every step that changes database.json is a
\* step of save_to_file in the handler that holds the Mutex, no other handler
\* is inside save_to_file at that moment, and what the file then holds is (the
\* beginning of) a text of the Database as the holder of the Mutex has it.
C15_SavesUnderLock ==
    [][file' # file =>
         /\ phase = "serving" /\ lock # 0
         /\ Saving = {lock}
         /\ req[lock].op \in Mutating
         /\ lock' = lock /\ db' = db
         /\ \E data \in Serializations(db) : IsPrefix(file'.text, data)]_vars

\* a handler has created or truncated database.json and is about to write,
\* while another mutating request waits for the Mutex
C15_Witness ==
    \E h, g \in Handlers :
       /\ lock = h /\ pc[h] = "write" /\ file = File_create(file)
       /\ pc[g] = "lock" /\ req[g].op \in Mutating

\* a step of the running process (not its stop, not its start)
Running == phase = "serving" /\ phase' = "serving"

\* C16 as stated: while the process runs, a user that is in the users map
\* stays there with all its fields, whatever requests are served, register
\* requests included.
C16_UsersNeverChange ==
    [][Running =>
         \A k \in DOMAIN db.users :
            k \in DOMAIN db'.users /\ db'.users[k] = db.users[k]]_vars

\* C16 as amended: while the process runs, no id leaves the users map, and
\* the record at an id changes only by a register request that carries this
\* id, which replaces it by the user of the request; no other request changes
\* any user.
C16_UsersOnlyReplaced ==
    [][Running =>
         \A k \in DOMAIN db.users :
            /\ k \in DOMAIN db'.users
            /\ db'.users[k] # db.users[k] =>
                  /\ lock # 0 /\ pc[lock] = "op" /\ req[lock].op = "register"
                  /\ req[lock].arg.id = k
                  /\ db'.users[k] = req[lock].arg]_vars

\* a register for another id was served and the user stored before is as it was
C16_Witness ==
    \E h \in Handlers :
       /\ Answered(h) /\ req[h].op = "register"
       /\ \E k \in DOMAIN before.users :
             k # req[h].arg.id /\ k \in DOMAIN db.users /\ db.users[k] = before.users[k]

\* a register for a stored id was served and has replaced the user
C16_WitnessReplaced ==
    \E h \in Handlers :
       /\ Answered(h) /\ req[h].op = "register"
       /\ req[h].arg.id \in DOMAIN before.users
       /\ before.users[req[h].arg.id] # req[h].arg
       /\ db.users[req[h].arg.id] = req[h].arg

\* C17: no step of get_task, get_all_tasks or login, from lock() to the return
\* of the handler, changes the tasks map, the users map or database.json,
\* whether the task or the user was found or not.
C17_ReadsHaveNoEffect ==
    [][\A h \in Handlers :
         (Running /\ req[h].op \in Reading /\ pc'[h] # pc[h]) =>
            (db' = db /\ file' = file)]_vars

\* get_task has found a task and answers 200; the Database and the file hold it
C17_Witness ==
    \E h \in Handlers :
       /\ Answered(h) /\ req[h].op = "get_task" /\ resp[h].status = 200
       /\ req[h].arg \in DOMAIN db.tasks
       /\ from_str(file.text) = [ok |-> TRUE, db |-> db]

\* login has found no user of that name and answers 400 although users are stored
C17_WitnessInvalid ==
    \E h \in Handlers :
       /\ Answered(h) /\ req[h].op = "login" /\ resp[h].status = 400
       /\ db.users # HashMap_new

\* C18: delete_task(id) takes the entry at id out of the tasks map and nothing
\* else: every other task and the whole users map are as they were, a missing
\* id leaves the Database as it was, and the answer is 200 in both cases.
C18_DeleteFrame ==
    \A h \in Handlers :
       (Called(h) /\ req[h].op = "delete_task") =>
          /\ DOMAIN db.tasks = DOMAIN before.tasks \ {req[h].arg}
          /\ \A k \in DOMAIN db.tasks : db.tasks[k] = before.tasks[k]
          /\ db.users = before.users
          /\ req[h].arg \notin DOMAIN before.tasks => db = before
          /\ Answered(h) => resp[h].status = 200

\* a delete_task for an id that is not stored was answered; the task stored
\* under the other id is still there
C18_Witness ==
    \E h \in Handlers :
       /\ Answered(h) /\ req[h].op = "delete_task"
       /\ req[h].arg \notin DOMAIN before.tasks
       /\ before.tasks # HashMap_new
       /\ db = before

\* a delete_task has removed the task stored under its id
C18_WitnessRemoved ==
    \E h \in Handlers :
       /\ Answered(h) /\ req[h].op = "delete_task"
       /\ req[h].arg \in DOMAIN before.tasks
       /\ req[h].arg \notin DOMAIN db.tasks

\* a delete_task was served while a user is registered
C18_WitnessUsers ==
    \E h \in Handlers :
       /\ Answered(h) /\ req[h].op = "delete_task"
       /\ before.users # HashMap_new /\ db.users = before.users

\* C19: seqDb and seqResp are what the Database the process started with and
\* the requests, in the order in which they took the lock, determine: Apply
\* and Responses take no save result. Every answer is the one answer they
\* determine and the Database is the one they determine, so two runs of a
\* process that differ only in which saves fail answer alike; and a mutating
\* request answers 200 after a save that returned Ok and after one that
\* returned Err.
C19_SaveFailuresInvisible ==
    \A h \in Handlers :
       Answered(h) =>
          /\ seqResp[h] = {resp[h]}
          /\ db = seqDb
          /\ req[h].op \in Mutating =>
                (saved[h] \in {"ok", "err"} /\ resp[h].status = 200 /\ resp[h] = OkEmpty)

\* in one run of the process one save returned Ok and the next one failed,
\* leaving database.json without the change; the request is answered 200
C19_Witness ==
    \E h \in Handlers :
       /\ Answered(h) /\ req[h].op \in Mutating
       /\ saved[h] = "err" /\ prevSave = "ok"
       /\ Restored # db
       /\ resp[h].status = 200

\* C20: while the process is not stopped, under fair scheduling of the worker
\* threads and of the Mutex, every request that has entered its handler gets
\* the lock, makes its Database call (and, when it is a mutating one, its
\* save, which returns Ok or Err), answers, and drops the lock; the lock is
\* never held for ever, and whenever a request is in a handler some handler
\* can take a step.
C20_EveryRequestCompletes ==
    /\ \A h \in Handlers : (pc[h] = "lock") ~> (lock = h /\ pc[h] = "op")
    /\ \A h \in Handlers : (pc[h] = "lock") ~> Answered(h)
    /\ \A h \in Handlers :
          (pc[h] = "lock" /\ req[h].op \in Mutating) ~> (Answered(h) /\ saved[h] \in {"ok", "err"})
    /\ \A h \in Handlers : Answered(h) ~> (pc[h] = "idle" /\ lock # h)
    /\ (lock # 0) ~> (lock = 0)
    /\ []((\E h \in Handlers : pc[h] # "idle") => ENABLED (\E h \in Handlers : Lock(h) \/ Run(h)))

\* every worker is in a handler: one holds the lock inside save_to_file, the
\* others wait in lock()
C20_Witness ==
    /\ \E h \in Handlers : lock = h /\ pc[h] = "save"
    /\ \A g \in Handlers : g # lock => pc[g] = "lock"

====
